---- MODULE Spec2Model ----
(***************************************************************************)
(* agentmemory: the category-scoped memory facade of agentmemory/main.py   *)
(* over a vector-collection backend.                                       *)
(*                                                                         *)
(* Representation                                                          *)
(*   - a Python string is a sequence: an id is a sequence of decimal       *)
(*     digits 0..9, a text is a sequence of words;                         *)
(*   - an optional argument is <<>> (None) or <<v>> (the value v);         *)
(*   - a dict is a function from its keys to its values;                   *)
(*   - a distance or similarity x in [0.0, 1.0] is the integer x * Scale;  *)
(*   - the Python bools True/False given as metadata values are the        *)
(*     strings PyTrue/PyFalse, distinct from the strings "True"/"False".   *)
(***************************************************************************)
EXTENDS Integers, Sequences, FiniteSets, TLC

VARIABLES
    collections,    \* the store: category name -> (id -> stored memory)
    createDefault,  \* the dict object that is create_memory's default for metadata
    uniqueDefault,  \* the dict object that is create_unique_memory's default for metadata
    clientReady,    \* the process-wide client handle has been created
    now,            \* the wall clock read by datetime.datetime.now()
    last            \* the last call: its arguments, backend calls and outcome

vars == <<collections, createDefault, uniqueDefault, clientReady, now, last>>

(***************************************************************************)
(* Bounds of the model                                                     *)
(***************************************************************************)
MaxRecords == 2      \* a create is taken only while the category holds fewer records
MaxClock == 0        \* the wall clock runs from 0 to MaxClock
QueryPool == 3       \* the category searched under SpecQuery holds up to QueryPool records
SimilarPool == 6     \* the category of SpecSimilar holds up to SimilarPool records
CategoryRecords == 1 \* under SpecCategories a create is taken while the category holds fewer
UniqueCalls == 4     \* the calls of a run of SpecUnique

(***************************************************************************)
(* Program constants                                                       *)
(***************************************************************************)
Scale == 100                 \* the float 1.0
IdWidth == 16                \* id.zfill(16)
SearchNResults == 5          \* search_memory(n_results=5)
GetNResults == 20            \* get_memories(n_results=20)
DefaultSimilarity == 95      \* similarity=0.95, similarity_threshold=0.95

None == <<>>
Some(v) == <<v>>
IsNone(x) == x = <<>>
Val(x) == x[1]

EmptyDict == <<>>
PyTrue == "bool True"
PyFalse == "bool False"

Min(a, b) == IF a <= b THEN a ELSE b
Abs(x) == IF x < 0 THEN -x ELSE x

(***************************************************************************)
(* Python built-ins                                                        *)
(***************************************************************************)
\* str(n) for an int n >= 0: its decimal digits
RECURSIVE StrInt(_)
StrInt(n) == IF n < 10 THEN <<n>> ELSE StrInt(n \div 10) \o <<n % 10>>

\* s.zfill(width): pad on the left with "0" up to width, never truncate
RECURSIVE ZFill(_, _)
ZFill(s, width) == IF Len(s) >= width THEN s ELSE ZFill(<<0>> \o s, width)

\* str(value) of a metadata value that is a bool
StrBool(v) == IF v = PyTrue THEN "True" ELSE "False"

IsBool(v) == v \in {PyTrue, PyFalse}

\* s < t for strings (lexicographic, a proper prefix first)
RECURSIVE StrLess(_, _)
StrLess(s, t) ==
    IF t = <<>> THEN FALSE
    ELSE IF s = <<>> THEN TRUE
    ELSE IF Head(s) # Head(t) THEN Head(s) < Head(t)
    ELSE StrLess(Tail(s), Tail(t))

\* d.update(e) as a value: the keys of e override those of d
DictMerge(d, e) ==
    [k \in DOMAIN d \cup DOMAIN e |-> IF k \in DOMAIN e THEN e[k] ELSE d[k]]

\* d[key] = value as a value
DictSet(d, key, value) ==
    [k \in DOMAIN d \cup {key} |-> IF k = key THEN value ELSE d[k]]

\* sorted(ids) / sorted(ids, reverse=True)
RECURSIVE SortIds(_, _)
SortIds(ids, reverse) ==
    IF ids = {} THEN <<>>
    ELSE LET first == CHOOSE i \in ids :
                 \A j \in ids \ {i} :
                     IF reverse THEN StrLess(j, i) ELSE StrLess(i, j)
         IN  <<first>> \o SortIds(ids \ {first}, reverse)

\* seq[:n]
Take(seq, n) == SubSeq(seq, 1, Min(n, Len(seq)))

Range(seq) == {seq[i] : i \in DOMAIN seq}

(***************************************************************************)
(* Texts and their embeddings.  The backend embeds a text as a point of    *)
(* the segment [0, Scale]; the distance of two embeddings is the length    *)
(* between them, so it lies in [0.0, 1.0] and is 0 for equal texts.        *)
(***************************************************************************)
TextCat == <<"cat">>
TextCatNap == <<"cat", "nap">>
TextNap == <<"nap">>
TextDog == <<"dog">>

Embed(text) ==
    CASE text = TextCat -> 0
      [] text = TextCatNap -> 4
      [] text = TextNap -> 8
      [] OTHER -> Scale

Distance(e1, e2) == Abs(e1 - e2)

\* sub occurs in doc as a run of consecutive words
Contains(doc, sub) ==
    \E i \in 0..(Len(doc) - Len(sub)) : SubSeq(doc, i + 1, i + Len(sub)) = sub

(***************************************************************************)
(* The backend's filter language                                           *)
(*   where:          {field: value} | {field: {"$eq": value}}               *)
(*                   | {"$and": [where, ...]}                               *)
(*   where_document: {"$contains": text}                                   *)
(***************************************************************************)
EqClause(key, value) == key :> ("$eq" :> value)

\* one top-level entry of a where holds of a metadata dict
RECURSIVE EntryHolds(_, _, _)
EntryHolds(metadata, key, value) ==
    IF key = "$and"
    THEN \A i \in DOMAIN value :
             \A k \in DOMAIN value[i] : EntryHolds(metadata, k, value[i][k]["$eq"])
    ELSE key \in DOMAIN metadata /\ metadata[key] = value

\* an absent or empty where selects everything; the entries of a where are
\* taken together
WhereHolds(metadata, where) ==
    IsNone(where) \/ \A key \in DOMAIN Val(where) : EntryHolds(metadata, key, Val(where)[key])

\* a where is an expression of the filter language: one operator or one field
WhereIsExpression(where) ==
    IsNone(where) \/ Cardinality(DOMAIN Val(where)) = 1

\* what the backend can do with a where: take it (TRUE) or raise ValueError
\* (FALSE).  An expression is taken.  Of a dict with several top-level keys,
\* a build that validates its filters raises and a build that does not takes
\* the keys together.
WhereVerdicts(where) == IF WhereIsExpression(where) THEN {TRUE} ELSE {TRUE, FALSE}

DocumentHolds(document, where_document) ==
    IsNone(where_document) \/ Contains(document, Val(where_document)["$contains"])

(***************************************************************************)
(* The backend's collections                                               *)
(***************************************************************************)
EmptyCollection == <<>>

\* client.get_or_create_collection(name)
GetOrCreateCollection(cols, name) ==
    IF name \in DOMAIN cols THEN cols
    ELSE [c \in DOMAIN cols \cup {name} |-> IF c = name THEN EmptyCollection ELSE cols[c]]

\* client.delete_collection(name)
DeleteCollection(cols, name) == [c \in DOMAIN cols \ {name} |-> cols[c]]

\* collection.count()
Count(col) == Cardinality(DOMAIN col)

\* collection.upsert(ids=[id], documents=[text], metadatas=[metadata], embeddings=...)
Upsert(col, id, text, metadata, embedding) ==
    LET memory == [document |-> text,
                   metadata |-> metadata,
                   embedding |-> IF IsNone(embedding) THEN Embed(text) ELSE Val(embedding)]
    IN  [i \in DOMAIN col \cup {id} |-> IF i = id THEN memory ELSE col[i]]

\* collection.update(ids=[id], documents=..., metadatas=...): an unknown id is
\* skipped, a new document is embedded again, new metadata is merged in
CollectionUpdate(col, id, documents, metadatas) ==
    IF id \notin DOMAIN col THEN col
    ELSE LET old == col[id]
             new == [document |-> IF IsNone(documents) THEN old.document ELSE Val(documents),
                     metadata |-> IF IsNone(metadatas) THEN old.metadata
                                  ELSE DictMerge(old.metadata, Val(metadatas)),
                     embedding |-> IF IsNone(documents) THEN old.embedding
                                   ELSE Embed(Val(documents))]
         IN  [col EXCEPT ![id] = new]

\* collection.delete(ids=[id])
CollectionDelete(col, id) == [i \in DOMAIN col \ {id} |-> col[i]]

\* the ids collection.get(ids=..., where=..., where_document=...) selects
CollectionGet(col, ids, where, where_document) ==
    {i \in DOMAIN col :
        /\ IsNone(ids) \/ i \in Val(ids)
        /\ WhereHolds(col[i].metadata, where)
        /\ DocumentHolds(col[i].document, where_document)}

\* the orders in which the n nearest of ids can come back, nearest first
RECURSIVE Rankings(_, _, _)
Rankings(ids, dist, n) ==
    IF n = 0 \/ ids = {} THEN {<<>>}
    ELSE LET nearest == {i \in ids : \A j \in ids : dist[i] <= dist[j]}
         IN  UNION {{<<i>> \o r : r \in Rankings(ids \ {i}, dist, n - 1)} : i \in nearest}

\* the answers collection.query(query_texts=[text], where=..., where_document=...,
\* n_results=n) can give: the ids of the n nearest selected memories
CollectionQuery(col, text, where, where_document, n) ==
    LET selected == CollectionGet(col, None, where, where_document)
        dist == [i \in selected |-> Distance(Embed(text), col[i].embedding)]
    IN  Rankings(selected, dist, n)

\* flatten_arrays and chroma_collection_to_list: one record per id, in the
\* backend's order, with the included fields
ResultRecord(col, id, text, include_embeddings, include_distances) ==
    [id |-> id,
     document |-> col[id].document,
     metadata |-> col[id].metadata,
     embedding |-> IF include_embeddings THEN Some(col[id].embedding) ELSE None,
     distance |-> IF include_distances
                  THEN Some(Distance(Embed(Val(text)), col[id].embedding)) ELSE None]

ResultList(col, hits, text, include_embeddings, include_distances) ==
    [n \in DOMAIN hits |->
        ResultRecord(col, hits[n], text, include_embeddings, include_distances)]

\* one call on a collection object, as the backend sees it
Call(fn, where, where_document, n) ==
    [fn |-> fn, where |-> where, where_document |-> where_document, n |-> n]

(***************************************************************************)
(* agentmemory/main.py                                                     *)
(***************************************************************************)
\* for key, value in metadata.items(): if isinstance(value, bool): metadata[key] = str(value)
\* (the timestamps, ids and texts among the values are no bools)
CoerceBools(metadata) ==
    [k \in DOMAIN metadata |->
        IF k \in {"created_at", "updated_at", "related_to", "related_document"}
        THEN metadata[k]
        ELSE IF IsBool(metadata[k]) THEN StrBool(metadata[k]) ELSE metadata[k]]

\* id = str(memories.count()); id = id.zfill(16)
GeneratedId(col) == ZFill(StrInt(Count(col)), IdWidth)

\* [{key: {"$eq": value}} for key, value in filter_metadata.items()]
RECURSIVE EqClauses(_)
EqClauses(d) ==
    IF DOMAIN d = {} THEN <<>>
    ELSE LET k == CHOOSE key \in DOMAIN d : TRUE
         IN  <<EqClause(k, d[k])>> \o EqClauses([j \in DOMAIN d \ {k} |-> d[j]])

\* the where search_memory and get_memories build from filter_metadata and unique
BuildWhere(filter_metadata, unique) ==
    LET conj == IF ~IsNone(filter_metadata) /\ Cardinality(DOMAIN Val(filter_metadata)) > 1
                THEN Some("$and" :> EqClauses(Val(filter_metadata)))
                ELSE filter_metadata
    IN  IF unique
        THEN Some(DictSet(IF IsNone(conj) THEN EmptyDict ELSE Val(conj), "unique", "True"))
        ELSE conj

\* contains_text = {"$contains": contains_text}
BuildWhereDocument(contains_text) ==
    IF IsNone(contains_text) THEN None ELSE Some("$contains" :> Val(contains_text))

\* result_list = [res for res in result_list if res["distance"] >= min_distance]
KeepMinDistance(list, min_distance) ==
    LET Keep(res) == Val(res.distance) >= Val(min_distance)
    IN  IF ~IsNone(min_distance) /\ Val(min_distance) > 0 THEN SelectSeq(list, Keep) ELSE list

\* a max_distance filter that drops a result at the bound itself
KeepMaxDistanceStrict(list, max_distance) ==
    LET Keep(res) == Val(res.distance) < Val(max_distance)
    IN  IF ~IsNone(max_distance) /\ Val(max_distance) < Scale THEN SelectSeq(list, Keep) ELSE list

\* result_list = [res for res in result_list if res["distance"] <= max_distance]
KeepMaxDistance(list, max_distance) ==
    LET Keep(res) == Val(res.distance) <= Val(max_distance)
    IN  IF ~IsNone(max_distance) /\ Val(max_distance) < Scale THEN SelectSeq(list, Keep) ELSE list

\* res["distance"] is read of a record that has no distance
MinRaises(list, min_distance) ==
    /\ ~IsNone(min_distance) /\ Val(min_distance) > 0
    /\ \E n \in DOMAIN list : IsNone(list[n].distance)

MaxRaises(list, max_distance) ==
    /\ ~IsNone(max_distance) /\ Val(max_distance) < Scale
    /\ \E n \in DOMAIN list : IsNone(list[n].distance)

\* a search that goes on to the query whatever the count
ReturnsEarlyNever(col) == FALSE

\* if (memories.count()) == 0: return []
ReturnsEarly(col) == Count(col) = 0

\* what a call leaves: the store, the exception raised ("" when it returns),
\* the list returned, the backend's answer and the calls made on the collection
Outcome(cols, err, list, raw, calls) ==
    [cols |-> cols, err |-> err, list |-> list, raw |-> raw, calls |-> calls]

\* search_memory(category, search_text, n_results, filter_metadata, contains_text,
\*               include_embeddings, include_distances, max_distance, min_distance, unique)
SearchMemoryOutcomes(cols, category, search_text, n_results, filter_metadata, contains_text, include_embeddings, include_distances, max_distance, min_distance, unique) ==
    LET cols1 == GetOrCreateCollection(cols, category)
        col == cols1[category]
        where_document == BuildWhereDocument(contains_text)
        n == Min(n_results, Count(col))
        where == BuildWhere(filter_metadata, unique)
        calls == <<Call("count", None, None, 0), Call("count", None, None, 0),
                   Call("query", where, where_document, n)>>
    IN  IF ReturnsEarly(col)
        THEN {Outcome(cols1, "", <<>>, <<>>, <<Call("count", None, None, 0)>>)}
        ELSE (IF FALSE \in WhereVerdicts(where)
              THEN {Outcome(cols1, "ValueError", <<>>, <<>>, calls)} ELSE {})
             \cup
             {LET raw == ResultList(col, hits, Some(search_text),
                                    include_embeddings, include_distances)
                  kept == KeepMinDistance(raw, min_distance)
              IN  IF MinRaises(raw, min_distance)
                  THEN Outcome(cols1, "KeyError", <<>>, raw, calls)
                  ELSE IF MaxRaises(kept, max_distance)
                  THEN Outcome(cols1, "KeyError", <<>>, raw, calls)
                  ELSE Outcome(cols1, "", KeepMaxDistance(kept, max_distance), raw, calls)
              : hits \in CollectionQuery(col, search_text, where, where_document, n)}

\* a get_memory that looks the collection up without creating it
GetMemoryOutcomeNoCreate(cols, category, id, include_embeddings) ==
    IF category \in DOMAIN cols
    THEN LET col == cols[category]
             ids == CollectionGet(col, Some({id}), None, None)
             memory == ResultList(col, SortIds(ids, FALSE), None, include_embeddings, FALSE)
         IN  Outcome(cols, "", memory, memory, <<Call("get", None, None, 1)>>)
    ELSE Outcome(cols, "", <<>>, <<>>, <<>>)

\* get_memory(category, id, include_embeddings): the list holds the memory, or
\* is empty when None is returned
GetMemoryOutcome(cols, category, id, include_embeddings) ==
    LET cols1 == GetOrCreateCollection(cols, category)
        col == cols1[category]
        ids == CollectionGet(col, Some({id}), None, None)
        memory == ResultList(col, SortIds(ids, FALSE), None, include_embeddings, FALSE)
    IN  Outcome(cols1, "", memory, memory, <<Call("get", None, None, 1)>>)

\* get_memories(category, sort_order, contains_text, filter_metadata, n_results,
\*              include_embeddings, unique)
GetMemoriesOutcomes(cols, category, desc, contains_text, filter_metadata, n_results, include_embeddings, unique) ==
    LET cols1 == GetOrCreateCollection(cols, category)
        col == cols1[category]
        n == Min(n_results, Count(col))
        where_document == BuildWhereDocument(contains_text)
        where == BuildWhere(filter_metadata, unique)
        calls == <<Call("count", None, None, 0), Call("get", where, where_document, 0)>>
        ids == CollectionGet(col, None, where, where_document)
        sorted == ResultList(col, SortIds(ids, desc), None, include_embeddings, FALSE)
    IN  {IF taken THEN Outcome(cols1, "", Take(sorted, n), sorted, calls)
         ELSE Outcome(cols1, "ValueError", <<>>, <<>>, calls)
         : taken \in WhereVerdicts(where)}

\* memory_exists(category, id, includes_metadata): flag is the value returned
MemoryExistsOutcomes(cols, category, id, includes_metadata) ==
    LET cols1 == GetOrCreateCollection(cols, category)
        col == cols1[category]
        ids == CollectionGet(col, Some({id}), includes_metadata, None)
        calls == <<Call("get", includes_metadata, None, 1)>>
    IN  {IF taken THEN [cols |-> cols1, err |-> "", flag |-> ids # {}, calls |-> calls]
         ELSE [cols |-> cols1, err |-> "ValueError", flag |-> FALSE, calls |-> calls]
         : taken \in WhereVerdicts(includes_metadata)}

\* delete_memory(category, id)
DeleteMemoryOutcome(cols, category, id) ==
    LET cols1 == GetOrCreateCollection(cols, category)
        exists == CHOOSE o \in MemoryExistsOutcomes(cols1, category, id, None) : TRUE
    IN  IF exists.flag = FALSE
        THEN [cols |-> exists.cols, calls |-> exists.calls]
        ELSE [cols |-> [exists.cols EXCEPT
                          ![category] = CollectionDelete(exists.cols[category], id)],
              calls |-> exists.calls \o <<Call("delete", None, None, 1)>>]

\* create_memory(category, text, metadata, embedding, id) on the dict object
\* metadata, with the clock read as created_at and again as updated_at:
\* the store, the dict object as the call leaves it, and the id written
CreateMemoryOutcome(cols, category, text, metadata, embedding, id, created_at, updated_at) ==
    LET cols1 == GetOrCreateCollection(cols, category)
        col == cols1[category]
        stamped == DictSet(DictSet(metadata, "created_at", created_at),
                           "updated_at", updated_at)
        newId == IF IsNone(id) THEN GeneratedId(col) ELSE Val(id)
        coerced == CoerceBools(stamped)
    IN  [cols |-> [cols1 EXCEPT ![category] = Upsert(col, newId, text, coerced, embedding)],
         metadata |-> coerced,
         id |-> newId,
         calls |-> (IF IsNone(id) THEN <<Call("count", None, None, 0)>> ELSE <<>>)
                   \o <<Call("upsert", None, None, 1)>>]

\* the flags create_unique_memory sets on the dict object metadata after its search
UniqueFlags(metadata, memories) ==
    IF Len(memories) = 0
    THEN DictSet(metadata, "unique", "True")
    ELSE DictSet(DictSet(DictSet(metadata, "unique", "False"),
                         "related_to", memories[1].id),
                 "related_document", memories[1].document)

\* create_unique_memory(category, content, metadata, similarity) on the dict
\* object metadata, one outcome for each answer the search can get
CreateUniqueMemoryOutcomes(cols, category, content, metadata, similarity, created_at, updated_at) ==
    LET max_distance == Scale - similarity
        searches == SearchMemoryOutcomes(cols, category, content, 1,
                                         Some("unique" :> "True"), None, TRUE, TRUE,
                                         Some(max_distance), Some(0), FALSE)
    IN  {LET created == CreateMemoryOutcome(found.cols, category, content,
                                            UniqueFlags(metadata, found.list),
                                            None, None, created_at, updated_at)
         IN  [cols |-> created.cols, metadata |-> created.metadata, id |-> created.id,
              found |-> found.list, calls |-> found.calls \o created.calls]
         : found \in searches}

\* update_memory(category, id, text, metadata)
UpdateMemoryOutcome(cols, category, id, text, metadata, updated_at) ==
    LET cols1 == GetOrCreateCollection(cols, category)
        col == cols1[category]
        stamped == DictSet(CoerceBools(Val(metadata)), "updated_at", updated_at)
    IN  IF IsNone(metadata) /\ IsNone(text)
        THEN [cols |-> cols1, err |-> "Exception", calls |-> <<>>]
        ELSE IF IsNone(metadata)
        THEN [cols |-> cols1, err |-> "TypeError", calls |-> <<>>]
        ELSE [cols |-> [cols1 EXCEPT
                          ![category] = CollectionUpdate(col, id, text, Some(stamped))],
              err |-> "",
              calls |-> <<Call("update", None, None, 1)>>]

\* a collection loop that also takes a similarity equal to the threshold
RECURSIVE MemoriesToDeleteAtLeast(_, _)
MemoriesToDeleteAtLeast(memories, similarity_threshold) ==
    IF memories = <<>> THEN <<>>
    ELSE LET goal_similarity == Scale - Val(Head(memories).distance)
         IN  IF goal_similarity >= similarity_threshold
             THEN <<Head(memories).id>>
                  \o MemoriesToDeleteAtLeast(Tail(memories), similarity_threshold)
             ELSE <<>>

\* the ids delete_similar_memories collects from its search result
RECURSIVE MemoriesToDelete(_, _)
MemoriesToDelete(memories, similarity_threshold) ==
    IF memories = <<>> THEN <<>>
    ELSE LET goal_similarity == Scale - Val(Head(memories).distance)
         IN  IF goal_similarity > similarity_threshold
             THEN <<Head(memories).id>>
                  \o MemoriesToDelete(Tail(memories), similarity_threshold)
             ELSE <<>>

\* for memory in memories_to_delete: delete_memory(category, memory)
RECURSIVE DeleteEach(_, _, _)
DeleteEach(cols, category, ids) ==
    IF ids = <<>> THEN [cols |-> cols, calls |-> <<>>]
    ELSE LET one == DeleteMemoryOutcome(cols, category, Head(ids))
             rest == DeleteEach(one.cols, category, Tail(ids))
         IN  [cols |-> rest.cols, calls |-> one.calls \o rest.calls]

\* delete_similar_memories(category, content, similarity_threshold)
DeleteSimilarMemoriesOutcomes(cols, category, content, similarity_threshold) ==
    LET searches == SearchMemoryOutcomes(cols, category, content, SearchNResults,
                                         None, None, TRUE, TRUE, None, None, FALSE)
    IN  {LET memories_to_delete == MemoriesToDelete(found.list, similarity_threshold)
             deleted == DeleteEach(found.cols, category, memories_to_delete)
         IN  [cols |-> deleted.cols, found |-> found.list,
              flag |-> Len(memories_to_delete) > 0,
              calls |-> found.calls \o deleted.calls]
         : found \in searches}

\* count_memories(category, unique): with unique, memories is the dict that
\* collection.get returns, which has no count()
CountMemoriesOutcome(cols, category, unique) ==
    LET cols1 == GetOrCreateCollection(cols, category)
        col == cols1[category]
    IN  IF unique
        THEN [cols |-> cols1, err |-> "AttributeError", num |-> 0,
              calls |-> <<Call("get", Some("unique" :> "True"), None, 0)>>]
        ELSE [cols |-> cols1, err |-> "", num |-> Count(col),
              calls |-> <<Call("count", None, None, 0), Call("count", None, None, 0)>>]

\* wipe_category(category)
WipeCategoryOutcome(cols, category) ==
    IF category \in DOMAIN cols THEN DeleteCollection(cols, category) ELSE cols

\* wipe_all_memories()
RECURSIVE WipeAllOutcome(_)
WipeAllOutcome(cols) ==
    IF DOMAIN cols = {} THEN cols
    ELSE WipeAllOutcome(DeleteCollection(cols, CHOOSE c \in DOMAIN cols : TRUE))

(***************************************************************************)
(* The calls of the model                                                  *)
(***************************************************************************)
\* the record of a call: the arguments given (None when omitted), then what
\* came of it
NoCall ==
    [op |-> "", category |-> "", existed |-> FALSE, id |-> None, text |-> None, metadata |-> None,
     embedding |-> None, filter_metadata |-> None, contains_text |-> None,
     n_results |-> 0, include_embeddings |-> TRUE, include_distances |-> TRUE,
     unique |-> FALSE, desc |-> TRUE, min_distance |-> None, max_distance |-> None,
     similarity |-> 0,
     err |-> "", list |-> <<>>, raw |-> <<>>, found |-> <<>>, flag |-> FALSE,
     num |-> 0, assigned |-> None, stamp |-> 0, calls |-> <<>>]

Times == 0..MaxClock

\* create_memory(category, text, metadata=..., embedding=..., id=...)
CreateMemory(category, text, metadata, embedding, id) ==
    /\ \E created_at \in Times, updated_at \in Times :
        /\ now <= created_at /\ created_at <= updated_at
        /\ LET given == IF IsNone(metadata) THEN createDefault ELSE Val(metadata)
               o == CreateMemoryOutcome(collections, category, text, given, embedding, id,
                                        created_at, updated_at)
           IN  /\ collections' = o.cols
               /\ createDefault' = IF IsNone(metadata) THEN o.metadata ELSE createDefault
               /\ now' = updated_at
               /\ last' = [NoCall EXCEPT !.op = "create", !.category = category,
                            !.existed = category \in DOMAIN collections,
                              !.text = Some(text), !.metadata = metadata,
                              !.embedding = embedding, !.id = id,
                              !.assigned = Some(o.id), !.stamp = updated_at,
                              !.calls = o.calls]
    /\ clientReady' = TRUE
    /\ UNCHANGED uniqueDefault

\* create_unique_memory(category, content, metadata=..., similarity=...)
CreateUniqueMemory(category, content, metadata, similarity) ==
    /\ \E created_at \in Times, updated_at \in Times :
        /\ now <= created_at /\ created_at <= updated_at
        /\ LET given == IF IsNone(metadata) THEN uniqueDefault ELSE Val(metadata)
           IN  \E o \in CreateUniqueMemoryOutcomes(collections, category,
                                                   content, given, similarity,
                                                   created_at, updated_at) :
                /\ collections' = o.cols
                /\ uniqueDefault' = IF IsNone(metadata) THEN o.metadata ELSE uniqueDefault
                /\ now' = updated_at
                /\ last' = [NoCall EXCEPT !.op = "create_unique", !.category = category,
                            !.existed = category \in DOMAIN collections,
                               !.text = Some(content), !.metadata = metadata,
                               !.similarity = similarity, !.found = o.found,
                               !.assigned = Some(o.id), !.stamp = updated_at,
                               !.calls = o.calls]
    /\ clientReady' = TRUE
    /\ UNCHANGED createDefault

\* search_memory(category, search_text, ...)
SearchMemory(category, search_text, n_results, filter_metadata, contains_text, include_embeddings, include_distances, max_distance, min_distance, unique) ==
    /\ \E o \in SearchMemoryOutcomes(collections, category, search_text,
                                     n_results, filter_metadata, contains_text,
                                     include_embeddings, include_distances,
                                     max_distance, min_distance, unique) :
        /\ collections' = o.cols
        /\ last' = [NoCall EXCEPT !.op = "search", !.category = category,
                            !.existed = category \in DOMAIN collections,
                       !.text = Some(search_text), !.n_results = n_results,
                       !.filter_metadata = filter_metadata,
                       !.contains_text = contains_text,
                       !.include_embeddings = include_embeddings,
                       !.include_distances = include_distances,
                       !.max_distance = max_distance, !.min_distance = min_distance,
                       !.unique = unique,
                       !.err = o.err, !.list = o.list, !.raw = o.raw, !.calls = o.calls]
    /\ clientReady' = TRUE
    /\ UNCHANGED <<createDefault, uniqueDefault, now>>

\* get_memory(category, id, include_embeddings=...)
GetMemory(category, id, include_embeddings) ==
    /\ LET o == GetMemoryOutcome(collections, category, id, include_embeddings)
       IN  /\ collections' = o.cols
           /\ last' = [NoCall EXCEPT !.op = "get", !.category = category,
                            !.existed = category \in DOMAIN collections,
                          !.id = Some(id), !.include_embeddings = include_embeddings,
                          !.include_distances = FALSE,
                          !.list = o.list, !.raw = o.raw, !.calls = o.calls]
    /\ clientReady' = TRUE
    /\ UNCHANGED <<createDefault, uniqueDefault, now>>

\* get_memories(category, sort_order=..., ...)
GetMemories(category, desc, contains_text, filter_metadata, n_results, include_embeddings, unique) ==
    /\ \E o \in GetMemoriesOutcomes(collections, category, desc, contains_text,
                                    filter_metadata, n_results, include_embeddings, unique) :
           /\ collections' = o.cols
           /\ last' = [NoCall EXCEPT !.op = "get_many", !.category = category,
                            !.existed = category \in DOMAIN collections,
                          !.desc = desc, !.contains_text = contains_text,
                          !.filter_metadata = filter_metadata, !.n_results = n_results,
                          !.include_embeddings = include_embeddings,
                          !.include_distances = FALSE, !.unique = unique,
                          !.err = o.err, !.list = o.list, !.raw = o.raw, !.calls = o.calls]
    /\ clientReady' = TRUE
    /\ UNCHANGED <<createDefault, uniqueDefault, now>>

\* update_memory(category, id, text=..., metadata=...)
UpdateMemory(category, id, text, metadata) ==
    /\ \E updated_at \in Times :
        /\ now <= updated_at
        /\ LET o == UpdateMemoryOutcome(collections, category, id, text, metadata, updated_at)
           IN  /\ collections' = o.cols
               /\ now' = IF IsNone(metadata) THEN now ELSE updated_at
               /\ last' = [NoCall EXCEPT !.op = "update", !.category = category,
                            !.existed = category \in DOMAIN collections,
                              !.id = Some(id), !.text = text, !.metadata = metadata,
                              !.stamp = IF IsNone(metadata) THEN 0 ELSE updated_at,
                              !.err = o.err, !.calls = o.calls]
    /\ clientReady' = TRUE
    /\ UNCHANGED <<createDefault, uniqueDefault>>

\* delete_memory(category, id)
DeleteMemory(category, id) ==
    /\ LET o == DeleteMemoryOutcome(collections, category, id)
       IN  /\ collections' = o.cols
           /\ last' = [NoCall EXCEPT !.op = "delete", !.category = category,
                            !.existed = category \in DOMAIN collections,
                          !.id = Some(id), !.calls = o.calls]
    /\ clientReady' = TRUE
    /\ UNCHANGED <<createDefault, uniqueDefault, now>>

\* delete_similar_memories(category, content, similarity_threshold=...)
DeleteSimilarMemories(category, content, similarity_threshold) ==
    /\ \E o \in DeleteSimilarMemoriesOutcomes(collections, category, content,
                                              similarity_threshold) :
        /\ collections' = o.cols
        /\ last' = [NoCall EXCEPT !.op = "delete_similar", !.category = category,
                            !.existed = category \in DOMAIN collections,
                       !.text = Some(content), !.similarity = similarity_threshold,
                       !.n_results = SearchNResults,
                       !.found = o.found, !.flag = o.flag, !.calls = o.calls]
    /\ clientReady' = TRUE
    /\ UNCHANGED <<createDefault, uniqueDefault, now>>

\* memory_exists(category, id, includes_metadata=...)
MemoryExists(category, id, includes_metadata) ==
    /\ \E o \in MemoryExistsOutcomes(collections, category, id, includes_metadata) :
           /\ collections' = o.cols
           /\ last' = [NoCall EXCEPT !.op = "exists", !.category = category,
                            !.existed = category \in DOMAIN collections,
                          !.id = Some(id), !.filter_metadata = includes_metadata,
                          !.err = o.err, !.flag = o.flag, !.calls = o.calls]
    /\ clientReady' = TRUE
    /\ UNCHANGED <<createDefault, uniqueDefault, now>>

\* count_memories(category, unique=...)
CountMemories(category, unique) ==
    /\ LET o == CountMemoriesOutcome(collections, category, unique)
       IN  /\ collections' = o.cols
           /\ last' = [NoCall EXCEPT !.op = "count", !.category = category,
                            !.existed = category \in DOMAIN collections,
                          !.unique = unique,
                          !.err = o.err, !.num = o.num, !.calls = o.calls]
    /\ clientReady' = TRUE
    /\ UNCHANGED <<createDefault, uniqueDefault, now>>

\* wipe_category(category)
WipeCategory(category) ==
    /\ collections' = WipeCategoryOutcome(collections, category)
    /\ last' = [NoCall EXCEPT !.op = "wipe_category", !.category = category,
                   !.existed = category \in DOMAIN collections]
    /\ clientReady' = TRUE
    /\ UNCHANGED <<createDefault, uniqueDefault, now>>

\* wipe_all_memories()
WipeAllMemories ==
    /\ collections' = WipeAllOutcome(collections)
    /\ last' = [NoCall EXCEPT !.op = "wipe_all"]
    /\ clientReady' = TRUE
    /\ UNCHANGED <<createDefault, uniqueDefault, now>>

(***************************************************************************)
(* Spec: the calls a process makes on one category of a store that starts  *)
(* with no collection, with arguments from the sets below                  *)
(***************************************************************************)
Category == "notes"
Texts == {TextCat, TextCatNap, TextDog}
GeneratedIds == {ZFill(StrInt(n), IdWidth) : n \in 0..(MaxRecords - 1)}
CreateIds == {None, Some(ZFill(<<1>>, IdWidth))}
CreateMetadatas == {None, Some("unique" :> PyTrue)}
UniqueMetadatas == {None, Some(EmptyDict)}
UpdateMetadatas == {None, Some("unique" :> PyTrue)}

Init ==
    /\ collections = <<>>
    /\ createDefault = EmptyDict
    /\ uniqueDefault = EmptyDict
    /\ clientReady = FALSE
    /\ now = 0
    /\ last = NoCall

\* the bound on a category's size: a create is taken while it has room
HasRoom(category, max) ==
    IF category \in DOMAIN collections THEN Count(collections[category]) < max ELSE TRUE

Next ==
    \/ \E text \in {TextCat, TextDog}, metadata \in CreateMetadatas, id \in CreateIds :
           HasRoom(Category, MaxRecords) /\ CreateMemory(Category, text, metadata, None, id)
    \/ \E content \in {TextCat, TextDog}, metadata \in UniqueMetadatas :
           /\ HasRoom(Category, MaxRecords)
           /\ CreateUniqueMemory(Category, content, metadata, DefaultSimilarity)
    \/ SearchMemory(Category, TextCat, SearchNResults, None, None, TRUE, TRUE,
                    None, None, FALSE)
    \/ \E id \in GeneratedIds : GetMemory(Category, id, TRUE)
    \/ GetMemories(Category, TRUE, None, None, GetNResults, TRUE, FALSE)
    \/ \E id \in GeneratedIds, text \in {None, Some(TextDog)}, metadata \in UpdateMetadatas :
           UpdateMemory(Category, id, text, metadata)
    \/ \E id \in GeneratedIds : DeleteMemory(Category, id)
    \/ \E content \in {TextCat, TextDog} : DeleteSimilarMemories(Category, content, DefaultSimilarity)
    \/ \E id \in GeneratedIds : MemoryExists(Category, id, None)
    \/ \E unique \in BOOLEAN : CountMemories(Category, unique)
    \/ WipeCategory(Category)
    \/ WipeAllMemories

Spec == Init /\ [][Next]_vars

(***************************************************************************)
(* SpecUnique: a process that only calls create_unique_memory, always      *)
(* without a metadata argument                                             *)
(***************************************************************************)
NextUnique ==
    \E content \in Texts, similarity \in {DefaultSimilarity, 99} :
        /\ HasRoom(Category, UniqueCalls)
        /\ CreateUniqueMemory(Category, content, None, similarity)

SpecUnique == Init /\ [][NextUnique]_vars

(***************************************************************************)
(* Properties under Spec                                                   *)
(***************************************************************************)
HasFlag(metadata, key, value) == key \in DOMAIN metadata /\ metadata[key] = value

\* the memories of col that create_unique_memory(content, similarity) is to
\* match: flagged unique="True", at a distance within [0, 1 - similarity]
UniqueWithin(col, content, similarity) ==
    {i \in DOMAIN col :
        /\ HasFlag(col[i].metadata, "unique", "True")
        /\ Distance(Embed(content), col[i].embedding) <= Scale - similarity}

\* the step is a call of op on a category that exists before it
CallOn(op) == last'.op = op /\ last'.category \in DOMAIN collections

\* C1: when create_unique is called and the category holds a memory M
\* flagged unique="True" within distance 1 - s of the content, the record
\* stored by the call has unique="False" and related_to = M's id, and M is
\* still stored, unchanged, with unique="True".
C1_UniqueMatchKept ==
    [][CallOn("create_unique") =>
        LET before == collections[last'.category]
            after == collections'[last'.category]
            new == Val(last'.assigned)
            matches == UniqueWithin(before, Val(last'.text), last'.similarity)
        IN  matches # {} =>
              /\ HasFlag(after[new].metadata, "unique", "False")
              /\ \E M \in matches :
                    /\ HasFlag(after[new].metadata, "related_to", M)
                    /\ M \in DOMAIN after
                    /\ after[M] = before[M]]_vars

\* C2: a create without an explicit id assigns the pre-insert record count,
\* zero-padded to 16 characters; the ids so assigned by successive creates
\* are strictly increasing; the id assigned is never that of a stored record.
AutoCreate(call) == call.op \in {"create", "create_unique"} /\ IsNone(call.id)

C2_GeneratedIdsFresh ==
    [][AutoCreate(last') =>
        LET before == GetOrCreateCollection(collections, last'.category)[last'.category]
            new == Val(last'.assigned)
        IN  /\ new = ZFill(StrInt(Count(before)), IdWidth)
            /\ Len(new) = IdWidth
            /\ (AutoCreate(last) /\ last.category = last'.category
                  => StrLess(Val(last.assigned), new))
            /\ new \notin DOMAIN before]_vars

\* C3: update of an existing id is rejected exactly when text and metadata
\* are both omitted; otherwise it applies the fields given, stamps
\* updated_at and keeps the ids.
C3_UpdateRejectsOnlyEmpty ==
    [][(CallOn("update") /\ Val(last'.id) \in DOMAIN collections[last'.category]) =>
        LET before == collections[last'.category]
            after == collections'[last'.category]
            id == Val(last'.id)
        IN  /\ (last'.err # "") <=> (IsNone(last'.text) /\ IsNone(last'.metadata))
            /\ last'.err = "" =>
                 /\ DOMAIN after = DOMAIN before
                 /\ IsNone(last'.text) \/ after[id].document = Val(last'.text)
                 /\ IsNone(last'.metadata)
                      \/ \A k \in DOMAIN Val(last'.metadata) :
                            after[id].metadata[k] = CoerceBools(Val(last'.metadata))[k]
                 /\ HasFlag(after[id].metadata, "updated_at", last'.stamp)]_vars

\* C5: count returns the number of records of the category, or with
\* unique=true the number of those flagged unique="True", and never raises.
C5_CountReturns ==
    last.op = "count" =>
        LET col == collections[last.category]
        IN  /\ last.err = ""
            /\ last.num = Cardinality({i \in DOMAIN col :
                              last.unique => HasFlag(col[i].metadata, "unique", "True")})

\* C10: in a run of create_unique calls made without a metadata argument, a
\* record stored with unique="True" has no related_to and no
\* related_document.
C10_UniqueCallsIndependent ==
    (last.op = "create_unique" /\ IsNone(last.metadata)) =>
        LET stored == collections[last.category][Val(last.assigned)].metadata
        IN  HasFlag(stored, "unique", "True")
              => {"related_to", "related_document"} \cap DOMAIN stored = {}

(***************************************************************************)
(* SpecCategories: create_memory and the calls that write no memory or     *)
(* drop collections, on two categories                                     *)
(***************************************************************************)
Categories == {"notes", "tasks"}
FirstId == ZFill(StrInt(0), IdWidth)

NextCategories ==
    \/ \E category \in Categories :
           /\ HasRoom(category, CategoryRecords)
           /\ CreateMemory(category, TextCat, None, None, None)
    \/ \E category \in Categories :
           SearchMemory(category, TextCat, SearchNResults, None, None, TRUE, TRUE,
                        None, None, FALSE)
    \/ \E category \in Categories : GetMemory(category, FirstId, TRUE)
    \/ \E category \in Categories :
           GetMemories(category, TRUE, None, None, GetNResults, TRUE, FALSE)
    \/ \E category \in Categories, text \in {None, Some(TextDog)} :
           UpdateMemory(category, FirstId, text, None)
    \/ \E category \in Categories : DeleteMemory(category, FirstId)
    \/ \E category \in Categories : MemoryExists(category, FirstId, None)
    \/ \E category \in Categories, unique \in BOOLEAN : CountMemories(category, unique)
    \/ \E category \in Categories : WipeCategory(category)
    \/ WipeAllMemories

SpecCategories == Init /\ [][NextCategories]_vars

\* the step is one of the calls that write no memory: search, get, get_many,
\* exists, count, delete of an id that is not stored, update that raises
WritesNothing ==
    \/ last'.op \in {"search", "get", "get_many", "exists", "count"}
    \/ /\ last'.op = "delete"
       /\ IF last'.category \in DOMAIN collections
          THEN Val(last'.id) \notin DOMAIN collections[last'.category] ELSE TRUE
    \/ last'.op = "update" /\ last'.err # ""

\* C9 as claimed: the calls that write no memory leave the set of
\* collections of the store unchanged.
C9_ReadsCreateNoCollection ==
    [][WritesNothing => DOMAIN collections' = DOMAIN collections]_vars

\* C9 as amended: a call that writes no memory leaves in the store the
\* collections it found, with their memories, and the category it names,
\* which it creates empty when the store does not have it.
C9_ReadsCreateOnlyTheirCategory ==
    [][WritesNothing =>
        /\ DOMAIN collections' = DOMAIN collections \cup {last'.category}
        /\ \A c \in DOMAIN collections : collections'[c] = collections[c]
        /\ \A c \in DOMAIN collections' \ DOMAIN collections :
              collections'[c] = EmptyCollection]_vars

\* a call that writes no memory has created the category it names
C9_Witness ==
    /\ last.op \in {"search", "get", "get_many", "exists", "count", "delete", "update"}
    /\ ~last.existed
    /\ last.category \in DOMAIN collections
    /\ collections[last.category] = EmptyCollection
    /\ \E c \in DOMAIN collections : c # last.category /\ collections[c] # EmptyCollection

(***************************************************************************)
(* SpecQuery: one search_memory or get_memories call on a category that    *)
(* a run of create_memory calls has filled                                 *)
(***************************************************************************)
\* the store after create_memory(Category, text, metadata) for each
\* <<text, metadata>> of creates, in turn, on the store cols
RECURSIVE StoreAfter(_, _)
StoreAfter(cols, creates) ==
    IF creates = <<>> THEN cols
    ELSE StoreAfter(CreateMemoryOutcome(cols, Category, Head(creates)[1],
                                        Head(creates)[2], None, None, 0, 0).cols,
                    Tail(creates))

StoresAfter(variants, size) ==
    UNION {{StoreAfter(<<>>, creates) : creates \in [1..n -> variants]} : n \in 0..size}

\* a store whose category exists and is empty, as a first search leaves it
EmptyStore == GetOrCreateCollection(<<>>, Category)

QueryCreates ==
    {<<TextCat, "k" :> "v">>,
     <<TextCat, ("k" :> "v") @@ ("unique" :> PyTrue)>>,
     <<TextCatNap, "unique" :> PyTrue>>,
     <<TextDog, "k" :> "w">>}

QueryFilters == {None, Some("k" :> "v"), Some(("k" :> "v") @@ ("unique" :> "True"))}
QueryDistances == {None, Some(0), Some(4), Some(Scale)}

InitQuery ==
    /\ collections \in StoresAfter(QueryCreates, QueryPool) \cup {EmptyStore}
    /\ createDefault = EmptyDict
    /\ uniqueDefault = EmptyDict
    /\ clientReady = (collections # <<>>)
    /\ now = 0
    /\ last = NoCall

NextQuery ==
    /\ last.op = ""
    /\ \/ \E search_text \in {TextCat}, n_results \in {1, SearchNResults},
             filter_metadata \in QueryFilters, contains_text \in {None, Some(<<"nap">>)},
             include_distances \in BOOLEAN, max_distance \in QueryDistances,
             min_distance \in QueryDistances, unique \in BOOLEAN :
              SearchMemory(Category, search_text, n_results, filter_metadata,
                           contains_text, TRUE, include_distances,
                           max_distance, min_distance, unique)
       \/ \E desc \in BOOLEAN, filter_metadata \in QueryFilters,
             contains_text \in {None, Some(<<"nap">>)}, n_results \in {1, GetNResults},
             unique \in BOOLEAN :
              GetMemories(Category, desc, contains_text, filter_metadata, n_results,
                          TRUE, unique)

SpecQuery == InitQuery /\ [][NextQuery]_vars

\* the where and where_document that the last call sent to the backend
Sent == {last.calls[n] : n \in {m \in DOMAIN last.calls : last.calls[m].fn \in {"query", "get"}}}

\* where is a conjunction of equality clauses on exactly the fields of
\* wanted, with wanted's values
IsConjunctionOf(where, wanted) ==
    IF DOMAIN wanted = {} THEN IsNone(where)
    ELSE /\ ~IsNone(where)
         /\ IF Cardinality(DOMAIN wanted) = 1
            THEN \E k \in DOMAIN wanted :
                    Val(where) \in {k :> wanted[k], EqClause(k, wanted[k])}
            ELSE /\ DOMAIN Val(where) = {"$and"}
                 /\ Range(Val(where)["$and"]) = {EqClause(k, wanted[k]) : k \in DOMAIN wanted}

\* the equalities a call asks for: those of filter_metadata, and unique="True"
Wanted(call) ==
    LET given == IF IsNone(call.filter_metadata) THEN EmptyDict ELSE Val(call.filter_metadata)
    IN  IF call.unique THEN DictSet(given, "unique", "True") ELSE given

\* C4: search and get_many send the backend a conjunction of equality
\* clauses, and every record they return matches every key of
\* filter_metadata and, with unique=true, has unique="True": the filter is
\* taken and applied, for no key, one key or several keys, with unique=true.
C4_FilterIsConjunction ==
    last.op \in {"search", "get_many"} =>
        /\ \A call \in Sent : IsConjunctionOf(call.where, Wanted(last))
        /\ last.err # "ValueError"
        /\ \A n \in DOMAIN last.list :
              \A k \in DOMAIN Wanted(last) :
                  HasFlag(last.list[n].metadata, k, Wanted(last)[k])

ZeroRecords == last.category \in DOMAIN collections /\ collections[last.category] = EmptyCollection

\* C7 as claimed: on a category with zero records, search and get_many
\* return an empty sequence and make no query and no get on the collection.
C7_EmptyCategoryNoBackendCall ==
    (last.op \in {"search", "get_many"} /\ ZeroRecords) =>
        /\ last.err = "" /\ last.list = <<>>
        /\ Sent = {}

\* C7 as amended: on a category with zero records, search returns an empty
\* sequence after a count alone, with no query and no get; get_many makes
\* no query and makes one get after its count, and it returns an empty
\* sequence unless the backend rejects the where of that get.
C7_EmptyCategorySearchReturnsEarly ==
    ZeroRecords =>
        /\ last.op = "search" =>
              /\ last.err = "" /\ last.list = <<>>
              /\ last.calls = <<Call("count", None, None, 0)>>
        /\ last.op = "get_many" =>
              /\ last.list = <<>>
              /\ Len(last.calls) = 2
              /\ last.calls[1].fn = "count" /\ last.calls[2].fn = "get"
              /\ last.err \in {"", "ValueError"}
              /\ last.err = "ValueError" => ~WhereIsExpression(last.calls[2].where)

C7_Witness ==
    /\ ZeroRecords
    /\ last.op = "search" /\ last.existed
    /\ ~IsNone(last.filter_metadata) /\ last.unique
    /\ last.list = <<>> /\ last.calls = <<Call("count", None, None, 0)>>

\* the distance of the last call's text to a stored memory
DistanceTo(id) ==
    Distance(Embed(Val(last.text)), collections[last.category][id].embedding)

WithinBounds(d, min_distance, max_distance) ==
    /\ IsNone(min_distance) \/ Val(min_distance) <= d
    /\ IsNone(max_distance) \/ d <= Val(max_distance)

\* sub is seq without the elements that fail Keep, in seq's order
IsSelection(sub, seq, Keep(_)) ==
    \E pick \in SUBSET DOMAIN seq :
        /\ \A n \in DOMAIN seq : n \in pick <=> Keep(seq[n])
        /\ Len(sub) = Cardinality(pick)
        /\ \A n \in pick : sub[Cardinality({m \in pick : m <= n})] = seq[n]

\* C8: the list a search with min_distance and/or max_distance returns is
\* the list the same search returns without them, less the results whose
\* distance d fails min_distance <= d <= max_distance, in the same order,
\* and it is ordered by non-decreasing distance.
C8_DistanceWindow ==
    (last.op = "search" /\ last.err = "") =>
        /\ \E unbounded \in SearchMemoryOutcomes(collections, last.category, Val(last.text),
                               last.n_results, last.filter_metadata, last.contains_text,
                               last.include_embeddings, last.include_distances,
                               None, None, last.unique) :
              LET Keep(res) == WithinBounds(DistanceTo(res.id),
                                            last.min_distance, last.max_distance)
              IN  unbounded.err = "" /\ IsSelection(last.list, unbounded.list, Keep)
        /\ \A m, n \in DOMAIN last.list :
              m < n => DistanceTo(last.list[m].id) <= DistanceTo(last.list[n].id)

C8_Witness ==
    /\ last.op = "search" /\ last.err = ""
    /\ last.min_distance = Some(4) /\ last.max_distance = Some(4)
    /\ Len(last.raw) = 3 /\ Len(last.list) = 1
    /\ DistanceTo(last.list[1].id) = 4
    /\ last.raw[2] = last.list[1]

(***************************************************************************)
(* SpecSimilar: one delete_similar_memories call on a category that a run  *)
(* of create_memory calls has filled                                       *)
(***************************************************************************)
SimilarCreates == {<<TextCat, EmptyDict>>, <<TextCatNap, EmptyDict>>}

InitSimilar ==
    /\ collections \in StoresAfter(SimilarCreates, SimilarPool)
    /\ createDefault = EmptyDict
    /\ uniqueDefault = EmptyDict
    /\ clientReady = (collections # <<>>)
    /\ now = 0
    /\ last = NoCall

NextSimilar ==
    /\ last.op = ""
    /\ \E content \in Texts, similarity_threshold \in {DefaultSimilarity, 96} :
           DeleteSimilarMemories(Category, content, similarity_threshold)

SpecSimilar == InitSimilar /\ [][NextSimilar]_vars

\* results is what a nearest-first search of col for content returns: the
\* n nearest memories of col, nearest first
IsNearestFirst(results, col, content, n) ==
    LET d(id) == Distance(Embed(content), col[id].embedding)
        ids == {results[m].id : m \in DOMAIN results}
    IN  /\ Len(results) = Min(n, Count(col))
        /\ Cardinality(ids) = Len(results) /\ ids \subseteq DOMAIN col
        /\ \A m, k \in DOMAIN results : m < k => d(results[m].id) <= d(results[k].id)
        /\ \A id \in DOMAIN col \ ids : \A m \in DOMAIN results : d(results[m].id) <= d(id)

\* the length of the longest prefix of results whose members have a
\* similarity to content above threshold
PrefixAbove(results, col, content, threshold) ==
    LET above(m) == Scale - Distance(Embed(content), col[results[m].id].embedding) > threshold
    IN  CHOOSE n \in 0..Len(results) :
            /\ \A m \in 1..n : above(m)
            /\ n = Len(results) \/ ~above(n + 1)

\* C6: delete_similar deletes the longest prefix of the nearest-first search
\* results whose members have a similarity (1 - distance) above the
\* threshold, deletes nothing else, and returns true iff it deleted a record.
C6_DeletesSimilarPrefix ==
    [][last'.op = "delete_similar" =>
        LET before == GetOrCreateCollection(collections, last'.category)[last'.category]
            after == collections'[last'.category]
            content == Val(last'.text)
            results == last'.found
            n == PrefixAbove(results, before, content, last'.similarity)
        IN  /\ IsNearestFirst(results, before, content, SearchNResults)
            /\ DOMAIN after = DOMAIN before \ {results[m].id : m \in 1..n}
            /\ \A id \in DOMAIN after : after[id] = before[id]
            /\ last'.flag <=> n > 0]_vars

\* the call stopped at a result under the threshold, after deleting others
C6_Witness ==
    /\ last.op = "delete_similar" /\ last.flag
    /\ Len(last.found) = SearchNResults
    /\ \E m \in DOMAIN last.found :
          /\ last.found[m].id \in DOMAIN collections[last.category]
          /\ Val(last.found[m].distance) = Scale - last.similarity
    /\ \E id \in DOMAIN collections[last.category] :
          id \notin {last.found[m].id : m \in DOMAIN last.found}
====
